---- MODULE Spec2Model ----
(***************************************************************************)
(* Model of src/dynamic-websocket-pool.js: the registry `connections`, the *)
(* connection records it holds, the async command handlers, the transport  *)
(* callbacks wired in connect(), the reconnect and ping timers, and the    *)
(* backoff function.                                                       *)
(*                                                                         *)
(* A record is a heap object: it outlives its registry entry, because the  *)
(* transport callbacks and the timers close over it.  Records live in      *)
(* slots 1..MaxRec, allocated in order of creation.  A record that nothing *)
(* can reach any more (not in the Map, closed by hand, its socket CLOSED   *)
(* or never made, no timer) is garbage: its slot goes back to FreeRec.     *)
(*                                                                         *)
(* rec.ws: connect() is called on a fresh record (line 102) or by the      *)
(* reconnect timer (line 110), which is armed only by the close callback   *)
(* of rec.ws (line 160) or by a constructor that threw (line 190).  So the *)
(* sockets a record made before rec.ws are all CLOSED and silent, and the  *)
(* record's field `ws` here is the readyState of rec.ws ("none": null).    *)
(*                                                                         *)
(* Scheduling (Node.js): a handler runs to its next `await`; the           *)
(* continuation is a microtask, run FIFO before any I/O or timer callback. *)
(* `queue` is that microtask queue.  A caller that emits two inputs in one *)
(* turn starts the second handler while the first is suspended.            *)
(***************************************************************************)
EXTENDS Integers, Sequences, FiniteSets, TLC

\* ---- bounds of the model
MaxRec == 3          \* records ever created
MaxRecFair == 2      \* the same, in the behaviours checked for progress
MaxAttempts == 1     \* cap on reconnectAttempts
MaxPending == 2      \* suspended handlers at one time
ExactExp == 15       \* 2^attempt is computed exactly up to this exponent
JitterSteps == 4     \* Math.random() is drawn from {0, 1/4, 2/4, 3/4}

\* ---- program constants
PingMs == 30000                \* line 14: the default of config.pingInterval
DefaultReconnectMin == 1000    \* line 15
DefaultReconnectMax == 30000   \* line 16
DoubleOverflowExp == 1024      \* line 25: Math.pow(2, 1024) is Infinity
timeoutMs == 10000             \* line 17: the default of config.timeoutMs

\* the ids the commands use; Star is the address the README gives for "all"
Names == {"a"}
Star == "*"
Slots == 1..MaxRec
CMD == "CMD"

VARIABLES
    pingIntervalDefault,   \* line 14, from the node's configuration
    connections,   \* Map id -> record: Names -> 0..MaxRec, 0 = no entry
    keyOrder,      \* the Map's keys in insertion order (what keys() iterates)
    rec,           \* the records: Slots -> record
    nextSlot,      \* the next record to be allocated
    queue,         \* suspended handlers (microtasks), FIFO
    nodeClosed,    \* node.on('close') has begun
    op,            \* the handler or callback the last step ran; done: it
                   \* called done(), lines 309 and 312; again: history, it is
                   \* the command of the step before, given once more
    emitted,       \* what the last step sent out, in order
    closedByCmd,   \* history: close(name) processed and no create(name) since
    bo             \* an evaluation of nextBackoff: its inputs and result

vars == <<pingIntervalDefault, connections, keyOrder, rec, nextSlot, queue, nodeClosed, op, emitted, closedByCmd, bo>>

\* a slot that holds no record: not allocated yet, or garbage.
\* aborted: ws is CLOSING because ws.close() was called on it while CONNECTING.
\* rejected: ws is CONNECTING and the peer has answered with an HTTP status.
\* replaced: history, a later record was set over this one in the Map
FreeRec ==
    [name |-> "", urlOk |-> TRUE, ws |-> "none", aborted |-> FALSE,
     rejected |-> FALSE, pingInterval |-> 0, pingTimer |-> FALSE,
     reconnectAttempts |-> 0, manualClose |-> FALSE, reconnectTimer |-> FALSE,
     replaced |-> FALSE]

\* the record literal of openConnection, lines 91-99.  The commands of this
\* model leave cmd.pingInterval out: line 94 takes the node's default
NewRec(id, urlOk) ==
    [name |-> id, urlOk |-> urlOk, ws |-> "none", aborted |-> FALSE,
     rejected |-> FALSE, pingInterval |-> pingIntervalDefault, pingTimer |-> FALSE,
     reconnectAttempts |-> 0, manualClose |-> FALSE, reconnectTimer |-> FALSE,
     replaced |-> FALSE]

\* one thing a step sent out: an event on the node's output, a warning or error
\* of the node, a frame or ping on a transport, or a dial (new WS)
Ev(topic, name, slot, R) ==
    [topic |-> topic, name |-> name, slot |-> slot,
     stale |-> IF slot = 0 THEN FALSE ELSE R[slot].replaced]

\* an acknowledgement, send({websocketId: 'CMD', topic, ...}), lines 278-297.
\* It is sent by the handler's last continuation, which does nothing else; the
\* step that ends the handler's work on the pool puts it out
Ack(topic) == [topic |-> topic, name |-> CMD, slot |-> 0, stale |-> FALSE]

\* the value of op after a step
Handled(kind, name, done) ==
    [kind |-> kind, name |-> name, done |-> done, again |-> FALSE]

\* the same, for a command that may repeat the command of the step before
Command(kind, name, done) ==
    [kind |-> kind, name |-> name, done |-> done,
     again |-> (op.kind = kind /\ op.name = name /\ op.done)]

\* ------------------------------------------------------------------------
\* nextBackoff, in IEEE doubles: Inf and NaN are the two non-finite values
\* ------------------------------------------------------------------------
\* (encoded as two integers no delay of the model reaches)
Inf == 2147483647
NaN == -2147483647

JsMin(x, y) ==
    IF x = NaN \/ y = NaN THEN NaN
    ELSE IF x = Inf THEN y
    ELSE IF y = Inf THEN x
    ELSE IF x <= y THEN x ELSE y

JsMax(x, y) ==
    IF x = NaN \/ y = NaN THEN NaN
    ELSE IF x = Inf \/ y = Inf THEN Inf
    ELSE IF x >= y THEN x ELSE y

\* Math.pow(2, attempt): Infinity from 2^1024 on; above ExactExp the finite
\* value is larger than any configured delay and is kept as Inf
Pow2(attempt) ==
    IF attempt >= DoubleOverflowExp \/ attempt > ExactExp THEN Inf ELSE 2 ^ attempt

\* x * p for a finite x >= 0.  0 * Infinity is NaN; 0 * (a finite power) is 0
JsMulPow(x, attempt) ==
    IF x = NaN THEN NaN
    ELSE IF x = 0 THEN (IF attempt >= DoubleOverflowExp THEN NaN ELSE 0)
    ELSE IF Pow2(attempt) = Inf THEN Inf
    ELSE x * Pow2(attempt)

\* Math.floor(base * 0.25 * Math.random()), Math.random() = draw / JitterSteps
JsJitter(base, draw) ==
    IF base = NaN THEN NaN
    ELSE (base * draw) \div (4 * JitterSteps)

JsAdd(x, y) == IF x = NaN \/ y = NaN THEN NaN ELSE x + y

nextBackoff(reconnectMin, reconnectMax, attempt, draw) ==
    LET base == JsMin(reconnectMax, JsMulPow(reconnectMin, attempt))
        jitter == JsJitter(base, draw)
    IN  JsMin(reconnectMax, JsAdd(base, jitter))

\* lines 15-16: the clamping of the configured values
ClampMin(cfgMin) == JsMax(0, cfgMin)
ClampMax(cfgMin, cfgMax) == JsMax(ClampMin(cfgMin), cfgMax)

\* Number(config.x || d): nothing configured (0 here) gives the default d, a
\* configured string gives its number, "0" and negative numbers included
CfgMinValues == {-1, 0, 1, 3, DefaultReconnectMin}
CfgMaxValues == {0, 2, 10, DefaultReconnectMax}
Attempts == (0..(ExactExp + 1)) \cup {DoubleOverflowExp - 1, DoubleOverflowExp, DoubleOverflowExp + 1}

\* ------------------------------------------------------------------------
\* the pool
\* ------------------------------------------------------------------------
Range(s) == {s[i] : i \in DOMAIN s}
Without(s, x) == SelectSeq(s, LAMBDA y : y # x)

\* listState, lines 226-242: the ids it reports are the Map's keys
ListKeys == {n \in Names : connections[n] # 0}

\* scheduleReconnect(rec), lines 105-111
scheduleReconnect(R, r) ==
    IF R[r].manualClose THEN R
    ELSE [R EXCEPT ![r].reconnectAttempts = @ + 1, ![r].reconnectTimer = TRUE]

\* scheduleReconnect with ++rec.reconnectAttempts in line 108
scheduleEmitsPreIncrement(R, r) ==
    IF R[r].manualClose THEN <<>>
    ELSE <<[topic |-> "schedule", name |-> R[r].name, slot |-> r, stale |-> R[r].replaced,
            attempt |-> R[r].reconnectAttempts + 1]>>

\* what scheduleReconnect(rec) puts out: the status "reconnect <id> in <delay>ms"
\* (line 109), delay = nextBackoff(attempt), attempt the value of
\* rec.reconnectAttempts++ (line 108): the count before the increment
scheduleEmits(R, r) ==
    IF R[r].manualClose THEN <<>>
    ELSE <<[topic |-> "schedule", name |-> R[r].name, slot |-> r, stale |-> R[r].replaced,
            attempt |-> R[r].reconnectAttempts]>>

\* setupPing(rec), lines 113-124
setupPing(R, r) ==
    [R EXCEPT ![r].pingTimer = (R[r].pingInterval > 0)]

\* connect whose catch reports the error and does not call scheduleReconnect
connectNoRetry(R, r) ==
    IF R[r].urlOk
    THEN [R EXCEPT ![r].ws = "CONNECTING"]
    ELSE R

\* connect(rec, wsOptions), lines 126-192: new WS(...) either throws (a url the
\* constructor rejects throws on every dial) or yields a CONNECTING socket
connect(R, r) ==
    IF R[r].urlOk
    THEN [R EXCEPT ![r].ws = "CONNECTING"]
    ELSE scheduleReconnect(R, r)

\* the second argument of connect when the caller passes none, line 110
Undefined == [undefined |-> TRUE]

\* wsOptions of openConnection, lines 71-89, for the opts the 'create' command
\* builds (lines 268-276): they carry url, protocols, headers, username,
\* password, rejectUnauthorized and pingInterval, so ca, cert, key, passphrase,
\* servername and the proxy agent are undefined, handshakeTimeout is
\* Number(undefined || undefined || 0) || undefined (0 here: no timeout) and
\* perMessageDeflate is true
wsOptions ==
    [headers |-> "rec.headers", rejectUnauthorized |-> "opts.rejectUnauthorized !== false",
     tls |-> "undefined", servername |-> "undefined", agent |-> "undefined",
     handshakeTimeout |-> 0, perMessageDeflate |-> TRUE]

\* ctorOpts, lines 128-132: wsOptions, or without them headers,
\* rejectUnauthorized and handshakeTimeout: timeoutMs; what the literal leaves
\* out is undefined, and perMessageDeflate is true by the default of ws
ctorOpts(options) ==
    IF options # Undefined THEN options
    ELSE [headers |-> "rec.headers", rejectUnauthorized |-> "opts.rejectUnauthorized !== false",
          tls |-> "undefined", servername |-> "undefined", agent |-> "undefined",
          handshakeTimeout |-> timeoutMs, perMessageDeflate |-> TRUE]

connectEmits(R, r, options) ==
    IF R[r].urlOk
    THEN <<[topic |-> "dial", name |-> R[r].name, slot |-> r, stale |-> R[r].replaced,
            opts |-> ctorOpts(options)]>>
    ELSE <<Ev("connectError", R[r].name, r, R)>> \o scheduleEmits(R, r)

\* closeConnection without line 198, clearTimeout(rec.reconnectTimer)
closeConnectionKeepsTimer(R, r) ==
    IF r = 0 THEN R
    ELSE [R EXCEPT ![r].manualClose = TRUE,
                   ![r].pingTimer = FALSE,
                   ![r].ws = IF @ \in {"CONNECTING", "OPEN"} THEN "CLOSING" ELSE @,
                   ![r].aborted = (R[r].ws = "CONNECTING") \/ @,
                   ![r].rejected = FALSE]

\* closeConnection without line 199, clearInterval(rec.pingTimer)
closeConnectionKeepsPing(R, r) ==
    IF r = 0 THEN R
    ELSE [R EXCEPT ![r].manualClose = TRUE,
                   ![r].reconnectTimer = FALSE,
                   ![r].ws = IF @ \in {"CONNECTING", "OPEN"} THEN "CLOSING" ELSE @,
                   ![r].aborted = (R[r].ws = "CONNECTING") \/ @,
                   ![r].rejected = FALSE]

\* closeConnection that destroys a socket it finds CLOSING already
closeConnectionTerminates(R, r) ==
    IF r = 0 THEN R
    ELSE [R EXCEPT ![r].manualClose = TRUE,
                   ![r].reconnectTimer = FALSE,
                   ![r].pingTimer = FALSE,
                   ![r].ws = IF @ \in {"CONNECTING", "OPEN"} THEN "CLOSING"
                             ELSE IF @ = "CLOSING" THEN "CLOSED" ELSE @,
                   ![r].aborted = (R[r].ws = "CONNECTING"),
                   ![r].rejected = FALSE]

\* closeConnection(id, {remove, silent}), lines 195-204: the part on the record.
\* ws.close() moves a CONNECTING or OPEN socket to CLOSING at once; its 'close'
\* callback comes later
closeConnection(R, r) ==
    IF r = 0 THEN R
    ELSE [R EXCEPT ![r].manualClose = TRUE,
                   ![r].reconnectTimer = FALSE,
                   ![r].pingTimer = FALSE,
                   ![r].ws = IF @ \in {"CONNECTING", "OPEN"} THEN "CLOSING" ELSE @,
                   ![r].aborted = (R[r].ws = "CONNECTING") \/ @,
                   ![r].rejected = FALSE]

\* closeConnection deleting the entry whatever `remove` is
removeEntryAlways(C, id, remove) == [C EXCEPT ![id] = 0]

\* closeConnection, lines 205-207: the part on the registry
removeEntry(C, id, remove) ==
    IF remove THEN [C EXCEPT ![id] = 0] ELSE C

removeKey(K, id, remove) ==
    IF remove THEN Without(K, id) ELSE K

\* garbage collection: see the head of the module
Garbage(R, C, r) ==
    /\ R[r].name # ""
    /\ C[R[r].name] # r
    /\ R[r].manualClose
    /\ R[r].ws \in {"none", "CLOSED"}

\* a record closed by hand and out of the Map still has a socket that closes:
\* its callbacks read name and manualClose only, and nothing else reads it
Detached(R, C, r) ==
    /\ R[r].name # ""
    /\ C[R[r].name] # r
    /\ R[r].manualClose

Collect(R, C) ==
    [r \in Slots |->
        IF Garbage(R, C, r) THEN FreeRec
        ELSE IF Detached(R, C, r)
        THEN [R[r] EXCEPT !.urlOk = TRUE, !.pingInterval = 0, !.reconnectAttempts = 0]
        ELSE R[r]]

\* openConnection from line 53 on: the new record is set over whatever the Map
\* holds for id now, and dialled.  `replaced` marks the record it was set over
Install(R, id, urlOk) ==
    LET s == nextSlot
        old == connections[id]
        R1 == IF old # 0 THEN [R EXCEPT ![old].replaced = TRUE] ELSE R
        R2 == [R1 EXCEPT ![s] = NewRec(id, urlOk)]
        C2 == [connections EXCEPT ![id] = s]
    IN  /\ rec' = Collect(connect(R2, s), C2)
        /\ connections' = C2
        /\ keyOrder' = IF id \in Range(keyOrder) THEN keyOrder ELSE Append(keyOrder, id)
        /\ nextSlot' = s + 1
        /\ emitted' = connectEmits(R2, s, wsOptions) \o <<Ack("create")>>

PendingCreates == Cardinality({i \in DOMAIN queue : queue[i].kind = "create"})

Task(kind, id, urlOk, rest) ==
    [kind |-> kind, id |-> id, urlOk |-> urlOk, rest |-> rest]

\* ---- commands (node.on('input'), lines 260-314)

\* 'create': openConnection(id, opts), lines 47-103.  With an entry for id, the
\* handler closes it and is suspended at the await of line 50
Create(id, urlOk) ==
    /\ ~nodeClosed
    /\ nextSlot + PendingCreates <= MaxRec
    /\ IF connections[id] # 0
       THEN /\ Len(queue) < MaxPending
            /\ rec' = Collect(closeConnection(rec, connections[id]), connections)
            /\ queue' = Append(queue, Task("create", id, urlOk, <<>>))
            /\ emitted' = <<>>
            /\ UNCHANGED <<connections, keyOrder, nextSlot>>
       ELSE /\ Install(rec, id, urlOk)
            /\ UNCHANGED queue
    /\ op' = Handled("create", id, connections[id] = 0)
    /\ closedByCmd' = [closedByCmd EXCEPT ![id] = FALSE]
    /\ UNCHANGED <<pingIntervalDefault, nodeClosed, bo>>

\* the validation of line 267 placed after the close of the existing entry
InvalidAfterClose(action) ==
    /\ ~nodeClosed
    /\ op' = Handled("invalid", CMD, TRUE)
    /\ emitted' = <<Ev("nodeError", CMD, 0, rec)>>
    /\ rec' = [r \in Slots |->
                 IF \E n \in Names : connections[n] = r
                 THEN closeConnection(rec, r)[r] ELSE rec[r]]
    /\ UNCHANGED <<pingIntervalDefault, connections, keyOrder, nextSlot, queue, nodeClosed, closedByCmd, bo>>

\* a command without a field it requires: 'create' without id or url (line
\* 267), 'close' or 'delete' without id (lines 282, 288).  The throw is caught
\* at line 310: node.error(err.message, msg) and done(err)
Invalid(action) ==
    /\ ~nodeClosed
    /\ op' = Handled("invalid", CMD, TRUE)
    /\ emitted' = <<Ev("nodeError", CMD, 0, rec)>>
    /\ UNCHANGED <<pingIntervalDefault, connections, keyOrder, rec, nextSlot, queue, nodeClosed, closedByCmd, bo>>

\* 'close' that acknowledges only when closeConnection found an entry
CloseAckIfFound(id) ==
    /\ ~nodeClosed
    /\ connections' = removeEntry(connections, id, FALSE)
    /\ rec' = Collect(closeConnection(rec, connections[id]), connections')
    /\ keyOrder' = removeKey(keyOrder, id, FALSE)
    /\ op' = Command("close", id, TRUE)
    /\ emitted' = IF connections[id] # 0 THEN <<Ack("close")>> ELSE <<>>
    /\ closedByCmd' = [closedByCmd EXCEPT ![id] = TRUE]
    /\ UNCHANGED <<pingIntervalDefault, nextSlot, queue, nodeClosed, bo>>

\* 'close', lines 281-286
Close(id) ==
    /\ ~nodeClosed
    /\ connections' = removeEntry(connections, id, FALSE)
    /\ rec' = Collect(closeConnection(rec, connections[id]), connections')
    /\ keyOrder' = removeKey(keyOrder, id, FALSE)
    /\ op' = Command("close", id, TRUE)
    /\ emitted' = <<Ack("close")>>
    /\ closedByCmd' = [closedByCmd EXCEPT ![id] = TRUE]
    /\ UNCHANGED <<pingIntervalDefault, nextSlot, queue, nodeClosed, bo>>

\* 'delete', lines 287-292
Delete(id) ==
    /\ ~nodeClosed
    /\ connections' = removeEntry(connections, id, TRUE)
    /\ rec' = Collect(closeConnection(rec, connections[id]), connections')
    /\ keyOrder' = removeKey(keyOrder, id, TRUE)
    /\ op' = Command("delete", id, TRUE)
    /\ emitted' = <<Ack("delete")>>
    /\ UNCHANGED <<pingIntervalDefault, nextSlot, queue, nodeClosed, closedByCmd, bo>>

\* the loop of 'closeAll' (lines 294-296) and of node.on('close') (lines
\* 318-320) over a copy of the keys: one closeConnection, then the await
LoopDone(keys) == Len(keys) <= 1

LoopEmits(kind, keys) ==
    IF kind = "closeAll" /\ LoopDone(keys) THEN <<Ack("closeAll")>> ELSE <<>>

LoopStep(kind, keys, rest) ==
    LET remove == (kind = "shutdown") IN
    IF keys = <<>>
    THEN /\ queue' = rest
         /\ UNCHANGED <<rec, connections, keyOrder>>
    ELSE /\ connections' = removeEntry(connections, Head(keys), remove)
         /\ rec' = Collect(closeConnection(rec, connections[Head(keys)]), connections')
         /\ keyOrder' = removeKey(keyOrder, Head(keys), remove)
         /\ queue' = IF Len(keys) > 1
                     THEN Append(rest, Task(kind, "", TRUE, Tail(keys)))
                     ELSE rest

\* 'closeAll', lines 293-299
CloseAll ==
    /\ ~nodeClosed
    /\ Len(queue) < MaxPending
    /\ LoopStep("closeAll", keyOrder, queue)
    /\ op' = Command("closeAll", CMD, LoopDone(keyOrder))
    /\ emitted' = LoopEmits("closeAll", keyOrder)
    /\ UNCHANGED <<pingIntervalDefault, nextSlot, nodeClosed, closedByCmd, bo>>

\* node.on('close'), lines 316-323
Shutdown ==
    /\ ~nodeClosed
    /\ Len(queue) < MaxPending
    /\ nodeClosed' = TRUE
    /\ LoopStep("shutdown", keyOrder, queue)
    /\ op' = Handled("shutdown", CMD, LoopDone(keyOrder))
    /\ emitted' = <<>>
    /\ UNCHANGED <<pingIntervalDefault, nextSlot, closedByCmd, bo>>

\* the continuation of the oldest suspended handler
Resume ==
    /\ queue # <<>>
    /\ LET h == Head(queue) IN
       IF h.kind = "create"
       THEN /\ Install(rec, h.id, h.urlOk)
            /\ queue' = Tail(queue)
            /\ op' = Handled("createResume", h.id, TRUE)
            /\ closedByCmd' = [closedByCmd EXCEPT ![h.id] = FALSE]
       ELSE /\ LoopStep(h.kind, h.rest, Tail(queue))
            /\ op' = Handled(h.kind, CMD, LoopDone(h.rest))
            /\ emitted' = LoopEmits(h.kind, h.rest)
            /\ UNCHANGED <<nextSlot, closedByCmd>>
    /\ UNCHANGED <<pingIntervalDefault, nodeClosed, bo>>

\* sendTo without the readyState test of line 213
sendToAnyState(id, throws) ==
    LET r == IF id \in Names THEN connections[id] ELSE 0 IN
    IF r = 0
    THEN <<Ev("warn", id, 0, rec)>>
    ELSE IF throws THEN <<Ev("nodeError", id, r, rec)>>
    ELSE <<Ev("frame", id, r, rec)>>

\* sendTo(id, payload), lines 211-224: what it puts out.  throws: ws.send threw
sendTo(id, throws) ==
    LET r == IF id \in Names THEN connections[id] ELSE 0 IN
    IF r = 0 \/ rec[r].ws # "OPEN"
    THEN <<Ev("warn", id, 0, rec)>>
    ELSE IF throws THEN <<Ev("nodeError", id, r, rec)>>
    ELSE <<Ev("frame", id, r, rec)>>

\* a data message: websocketId is a non-empty string other than CMD, line 305
Send(id, throws) ==
    /\ ~nodeClosed
    /\ emitted' = sendTo(id, throws)
    /\ op' = Handled("send", id, TRUE)
    /\ UNCHANGED <<pingIntervalDefault, connections, keyOrder, rec, nextSlot, queue, nodeClosed, closedByCmd, bo>>

\* 'list' and any other action, lines 300-302
List ==
    /\ ~nodeClosed
    /\ emitted' = <<Ev("list", CMD, 0, rec)>>
    /\ op' = Handled("list", CMD, TRUE)
    /\ UNCHANGED <<pingIntervalDefault, connections, keyOrder, rec, nextSlot, queue, nodeClosed, closedByCmd, bo>>

\* ---- transport callbacks and timers: macrotasks, run with no microtask left
\* and no process.nextTick callback: ws reports the handshake that ws.close()
\* aborted from process.nextTick, before the event loop takes its next task
Idle ==
    /\ queue = <<>>
    /\ \A r \in Slots : ~rec[r].aborted

Frame == UNCHANGED <<pingIntervalDefault, connections, keyOrder, nextSlot, queue, nodeClosed, closedByCmd, bo>>

\* ws.on('open') without line 144
WsOpenKeepsAttempts(r) ==
    /\ Idle
    /\ rec[r].ws = "CONNECTING" /\ ~rec[r].rejected
    /\ rec' = setupPing([rec EXCEPT ![r].ws = "OPEN"], r)
    /\ emitted' = <<Ev("open", rec[r].name, r, rec)>>
    /\ op' = Handled("wsOpen", rec[r].name, FALSE)
    /\ Frame

\* ws.on('open'), lines 143-148
WsOpen(r) ==
    /\ Idle
    /\ rec[r].ws = "CONNECTING" /\ ~rec[r].rejected
    /\ rec' = setupPing([rec EXCEPT ![r].ws = "OPEN", ![r].reconnectAttempts = 0], r)
    /\ emitted' = <<Ev("open", rec[r].name, r, rec)>>
    /\ op' = Handled("wsOpen", rec[r].name, FALSE)
    /\ Frame

\* ws.on('message'), lines 150-153: frames arrive on an open socket, and on one
\* that is closing until the peer's close frame arrives
WsMessage(r) ==
    /\ Idle
    /\ rec[r].ws = "OPEN" \/ (rec[r].ws = "CLOSING" /\ ~rec[r].aborted)
    /\ emitted' = <<Ev("message", rec[r].name, r, rec)>>
    /\ op' = Handled("wsMessage", rec[r].name, FALSE)
    /\ UNCHANGED rec
    /\ Frame

\* an open socket starts to close without ws.close() being called here: the
\* peer's close frame arrived (no 'error'), or an I/O error (ws.on('error'),
\* lines 163-166).  The 'close' callback follows in a later turn
WsClosing(r, err) ==
    /\ Idle
    /\ rec[r].ws = "OPEN"
    /\ rec' = [rec EXCEPT ![r].ws = "CLOSING"]
    /\ emitted' = IF err THEN <<Ev("error", rec[r].name, r, rec)>> ELSE <<>>
    /\ op' = Handled("wsClosing", rec[r].name, FALSE)
    /\ Frame

\* ws.on('close'), lines 155-161.  A handshake aborted by ws.close() reports
\* 'error' and then 'close' from process.nextTick, which may run before the
\* suspended handlers
onClose(R, r) ==
    LET R1 == [R EXCEPT ![r].ws = "CLOSED", ![r].pingTimer = FALSE,
                        ![r].aborted = FALSE, ![r].rejected = FALSE]
    IN  IF ~R[r].manualClose THEN scheduleReconnect(R1, r) ELSE R1

WsClose(r) ==
    /\ rec[r].ws \in {"OPEN", "CLOSING"}
    /\ Idle \/ rec[r].aborted
    /\ rec' = Collect(onClose(rec, r), connections)
    /\ emitted' = (IF rec[r].aborted
                   THEN <<Ev("error", rec[r].name, r, rec)>> ELSE <<>>)
                  \o <<Ev("close", rec[r].name, r, rec)>>
                  \o scheduleEmits(rec, r)
    /\ op' = Handled("wsClose", rec[r].name, FALSE)
    /\ Frame

\* the same with an error listener that schedules a reconnect as well
WsHandshakeFailErrorSchedules(r) ==
    /\ Idle
    /\ rec[r].ws = "CONNECTING" /\ ~rec[r].rejected
    /\ rec[r].reconnectAttempts < MaxAttempts
    /\ rec' = onClose(scheduleReconnect(rec, r), r)
    /\ emitted' = <<Ev("error", rec[r].name, r, rec)>> \o scheduleEmits(rec, r)
                  \o <<Ev("close", rec[r].name, r, rec)>>
                  \o scheduleEmits(scheduleReconnect(rec, r), r)
    /\ op' = Handled("wsFail", rec[r].name, FALSE)
    /\ Frame

\* the handshake fails (refused, reset, handshake timeout): ws reports 'error'
\* and 'close' in the same turn, lines 163-166 and 155-161
WsHandshakeFail(r) ==
    /\ Idle
    /\ rec[r].ws = "CONNECTING" /\ ~rec[r].rejected
    /\ rec[r].reconnectAttempts < MaxAttempts
    /\ rec' = onClose(rec, r)
    /\ emitted' = <<Ev("error", rec[r].name, r, rec), Ev("close", rec[r].name, r, rec)>>
                  \o scheduleEmits(rec, r)
    /\ op' = Handled("wsFail", rec[r].name, FALSE)
    /\ Frame

\* ws.on('unexpected-response'), lines 169-187: the peer answers the upgrade
\* with an HTTP status other than 101.  With a listener registered ws hands
\* the response over and does not abort the handshake itself; the listener
\* reads the body and sends the error event, and calls nothing on ws or the
\* request.  (A handshake timeout, where the dial carries one, is part of
\* WsHandshakeFail; the dial of a create command carries none, line 81.)
WsUnexpectedResponse(r) ==
    /\ Idle
    /\ rec[r].ws = "CONNECTING" /\ ~rec[r].rejected
    /\ rec' = [rec EXCEPT ![r].rejected = TRUE]
    /\ emitted' = <<Ev("errorStatus", rec[r].name, r, rec)>>
    /\ op' = Handled("wsReject", rec[r].name, FALSE)
    /\ Frame

\* the reconnect timer fires: connect(rec), line 110
ReconnectFire(r) ==
    /\ Idle
    /\ rec[r].reconnectTimer
    /\ rec[r].urlOk \/ rec[r].reconnectAttempts < MaxAttempts
    /\ LET R1 == [rec EXCEPT ![r].reconnectTimer = FALSE] IN
       /\ rec' = connect(R1, r)
       /\ emitted' = connectEmits(R1, r, Undefined)
    /\ op' = Handled("reconnectTimer", rec[r].name, FALSE)
    /\ Frame

\* the ping interval fires, lines 116-122
PingFire(r) ==
    /\ Idle
    /\ rec[r].pingTimer
    /\ emitted' = IF rec[r].ws = "OPEN" THEN <<Ev("ping", rec[r].name, r, rec)>> ELSE <<>>
    /\ op' = Handled("pingTimer", rec[r].name, FALSE)
    /\ UNCHANGED rec
    /\ Frame

\* Number(config.pingInterval || 30000): "0" gives 0, nothing gives 30000
PingChoices == {0, PingMs}

Init ==
    /\ pingIntervalDefault \in PingChoices
    /\ connections = [n \in Names |-> 0]
    /\ keyOrder = <<>>
    /\ rec = [r \in Slots |-> FreeRec]
    /\ nextSlot = 1
    /\ Idle
    /\ nodeClosed = FALSE
    /\ op = Handled("init", CMD, FALSE)
    /\ emitted = <<>>
    /\ closedByCmd = [n \in Names |-> FALSE]
    /\ bo = [reconnectMin |-> DefaultReconnectMin, reconnectMax |-> DefaultReconnectMax,
             attempt |-> 0, delay |-> 0, done |-> FALSE]

Next ==
    \/ \E id \in Names, urlOk \in BOOLEAN : Create(id, urlOk)
    \/ \E action \in {"create", "close", "delete"} : Invalid(action)
    \/ \E id \in Names : Close(id)
    \/ \E id \in Names : Delete(id)
    \/ CloseAll
    \/ Shutdown
    \/ Resume
    \/ \E id \in Names \cup {Star}, throws \in BOOLEAN : Send(id, throws)
    \/ List
    \/ \E r \in Slots : WsOpen(r)
    \/ \E r \in Slots : WsMessage(r)
    \/ \E r \in Slots, err \in BOOLEAN : WsClosing(r, err)
    \/ \E r \in Slots : WsClose(r)
    \/ \E r \in Slots : WsHandshakeFail(r)
    \/ \E r \in Slots : WsUnexpectedResponse(r)
    \/ \E r \in Slots : ReconnectFire(r)
    \/ \E r \in Slots : PingFire(r)

Spec == Init /\ [][Next]_vars

\* the event loop does not stop: a suspended handler is resumed, an aborted
\* handshake is reported, and a reconnect timer that is set fires (line 110)
\* Init with the first MaxRec - MaxRecFair slots left unused
InitFair ==
    /\ pingIntervalDefault \in PingChoices
    /\ connections = [n \in Names |-> 0]
    /\ keyOrder = <<>>
    /\ rec = [r \in Slots |-> FreeRec]
    /\ nextSlot = 1 + (MaxRec - MaxRecFair)
    /\ queue = <<>>
    /\ nodeClosed = FALSE
    /\ op = Handled("init", CMD, FALSE)
    /\ emitted = <<>>
    /\ closedByCmd = [n \in Names |-> FALSE]
    /\ bo = [reconnectMin |-> DefaultReconnectMin, reconnectMax |-> DefaultReconnectMax,
             attempt |-> 0, delay |-> 0, done |-> FALSE]

SpecFair ==
    /\ InitFair /\ [][Next]_vars
    /\ WF_vars(Resume)
    /\ WF_vars(\E r \in Slots : rec[r].aborted /\ WsClose(r))
    /\ \A r \in Slots : WF_vars(ReconnectFire(r))

\* ------------------------------------------------------------------------
\* nextBackoff on its own: the node is configured, then scheduleReconnect
\* evaluates nextBackoff(rec.reconnectAttempts++) with a draw of Math.random()
\* ------------------------------------------------------------------------
InitBackoff ==
    /\ pingIntervalDefault = PingMs
    /\ connections = [n \in Names |-> 0]
    /\ keyOrder = <<>>
    /\ rec = [r \in Slots |-> FreeRec]
    /\ nextSlot = 1
    /\ Idle
    /\ nodeClosed = FALSE
    /\ op = Handled("init", CMD, FALSE)
    /\ emitted = <<>>
    /\ closedByCmd = [n \in Names |-> FALSE]
    /\ \E cfgMin \in CfgMinValues, cfgMax \in CfgMaxValues :
          bo = [reconnectMin |-> ClampMin(cfgMin), reconnectMax |-> ClampMax(cfgMin, cfgMax),
                attempt |-> 0, delay |-> 0, done |-> FALSE]

Backoff(attempt, draw) ==
    /\ bo' = [bo EXCEPT !.attempt = attempt, !.done = TRUE,
                        !.delay = nextBackoff(bo.reconnectMin, bo.reconnectMax, attempt, draw)]
    /\ UNCHANGED <<pingIntervalDefault, connections, keyOrder, rec, nextSlot, queue,
                   nodeClosed, op, emitted, closedByCmd>>

NextBackoff == \E attempt \in Attempts, draw \in 0..(JitterSteps - 1) : Backoff(attempt, draw)

SpecBackoff == InitBackoff /\ [][NextBackoff]_vars

\* ------------------------------------------------------------------------
\* the claims
\* ------------------------------------------------------------------------
Topics(slotOrZero, topics) ==
    {i \in DOMAIN emitted : emitted[i].topic \in topics /\ emitted[i].slot = slotOrZero}

Live(r) == rec[r].ws \in {"CONNECTING", "OPEN"}

Min2(x, y) == IF x <= y THEN x ELSE y

\* C1: for every name at most one record has a CONNECTING or OPEN transport,
\* and a record that create has set a new one over has no CONNECTING or OPEN
\* transport and neither timer pending
C1_OneLiveTransportPerName ==
    /\ \A n \in Names : Cardinality({r \in Slots : rec[r].name = n /\ Live(r)}) <= 1
    /\ \A r \in Slots :
          rec[r].replaced => ~Live(r) /\ ~rec[r].reconnectTimer /\ ~rec[r].pingTimer

\* C2: no open, message, close or error event comes from a record after create
\* has set a new record over it
C2_NoEventFromReplaced ==
    \A i \in DOMAIN emitted :
        emitted[i].topic \in {"open", "message", "close", "error", "errorStatus"}
            => ~emitted[i].stale

\* C3: no open event carries a name for which close has been processed and no
\* create since
C3_NoOpenAfterClose ==
    \A i \in DOMAIN emitted :
        emitted[i].topic = "open" => ~closedByCmd[emitted[i].name]

\* C4: a record whose manualClose is true has no reconnect timer pending, stays
\* manually closed and is never dialled again, whatever arrives later
C4_ManualCloseStopsReconnect ==
    [][\A r \in Slots :
          /\ rec'[r].manualClose => ~rec'[r].reconnectTimer
          /\ rec[r].manualClose =>
                /\ rec'[r].manualClose \/ rec'[r] = FreeRec
                /\ {i \in DOMAIN emitted' :
                        emitted'[i].slot = r
                        /\ emitted'[i].topic \in {"dial", "connectError"}} = {}]_vars

\* a transport close has arrived at a record that was closed by hand before
C4_Witness ==
    /\ op.kind = "wsClose"
    /\ \E r \in Slots : rec[r].manualClose /\ rec[r].ws = "CLOSED" /\ ~rec[r].reconnectTimer

\* C5: create(name) adds name to the registry's keys, delete(name) removes it,
\* and close, closeAll and every other step but the node's teardown leave the
\* keys as they are
C5_KeysFrame ==
    [][/\ ListKeys' = Range(keyOrder')
       /\ CASE op'.kind \in {"create", "createResume"} -> ListKeys' = ListKeys \cup {op'.name}
            [] op'.kind = "delete" -> ListKeys' = ListKeys \ {op'.name}
            [] op'.kind = "shutdown" -> ListKeys' \subseteq ListKeys
            [] OTHER -> ListKeys' = ListKeys]_vars

\* close has been processed on an entry and the entry is still listed
C5_Witness ==
    /\ op.kind \in {"close", "closeAll"}
    /\ \E n \in ListKeys : rec[connections[n]].manualClose

\* C6: a send to a name with no entry, or whose transport is not OPEN, puts out
\* one warning and nothing else, and changes no entry, timer or registry key
C6_SendNotOpen ==
    [][(/\ op'.kind = "send"
        /\ \/ op'.name \notin Names
           \/ connections[op'.name] = 0
           \/ rec[connections[op'.name]].ws # "OPEN")
       => /\ emitted' = <<[topic |-> "warn", name |-> op'.name, slot |-> 0, stale |-> FALSE]>>
          /\ UNCHANGED <<connections, keyOrder, rec, nextSlot, queue>>]_vars

\* a send to an entry that exists and whose transport is closing
C6_Witness ==
    /\ op.kind = "send" /\ op.name \in ListKeys
    /\ rec[connections[op.name]].ws = "CLOSING"
    /\ Topics(0, {"warn"}) # {}

\* C7: a send addressed to "*" puts one frame on the transport of every entry
\* that is OPEN, and on no other
C7_Broadcast ==
    (op.kind = "send" /\ op.name = Star)
        => {emitted[i].slot : i \in {j \in DOMAIN emitted : emitted[j].topic = "frame"}}
              = {connections[n] : n \in {m \in ListKeys : rec[connections[m]].ws = "OPEN"}}

\* min(reconnectMax, reconnectMin * 2^attempt) as a number
TrueBase(reconnectMin, reconnectMax, attempt) ==
    IF reconnectMin = 0 THEN 0
    ELSE IF attempt > ExactExp THEN reconnectMax
    ELSE Min2(reconnectMax, reconnectMin * (2 ^ attempt))

\* C8: nextBackoff(attempt) is a number in [b, min(reconnectMax, b + floor(b/4))],
\* b = min(reconnectMax, reconnectMin * 2^attempt), for every attempt >= 0
C8_BackoffRange ==
    bo.done =>
        LET b == TrueBase(bo.reconnectMin, bo.reconnectMax, bo.attempt) IN
        /\ bo.delay \notin {NaN, Inf}
        /\ b <= bo.delay
        /\ bo.delay <= Min2(bo.reconnectMax, b + (b \div 4))

\* C9: once the error event with the HTTP status has been sent for a record
\* that is not manually closed, its close is on the way or a reconnect is
\* scheduled: it is not left CONNECTING with nothing pending
C9_RejectionReconnects ==
    \A r \in Slots :
        (rec[r].rejected /\ ~rec[r].manualClose)
            => \/ rec[r].reconnectTimer
               \/ rec[r].ws \in {"CLOSING", "CLOSED"}

\* C10: a record closed by close, delete or closeAll has no ping timer from
\* the command on, and no ping is sent on its transport
C10_NoPingAfterClose ==
    [][\A r \in Slots :
          /\ rec'[r].manualClose => ~rec'[r].pingTimer
          /\ rec[r].manualClose => Topics(r, {"ping"})' = {}]_vars

\* close has been processed on an entry that was OPEN with its ping timer
\* running, and the transport's close callback has not arrived yet
C10_Witness ==
    /\ op.kind \in {"close", "delete", "closeAll"}
    /\ \E r \in Slots :
          /\ rec[r].manualClose /\ rec[r].ws = "CLOSING" /\ ~rec[r].aborted
          /\ pingIntervalDefault > 0

\* C11: a command that lacks a required field puts out one error of the node
\* and no acknowledgement, and leaves the registry, every record, every timer
\* and transport, the suspended handlers and the node itself as they were
C11_InvalidRejected ==
    [][op'.kind = "invalid"
          => /\ emitted' = <<[topic |-> "nodeError", name |-> CMD, slot |-> 0, stale |-> FALSE]>>
             /\ op'.done
             /\ UNCHANGED <<connections, keyOrder, rec, nextSlot, queue, nodeClosed>>]_vars

\* an invalid command has been rejected while an entry is OPEN and listed
C11_Witness ==
    /\ op.kind = "invalid" /\ ~nodeClosed
    /\ \E n \in ListKeys : rec[connections[n]].ws = "OPEN"

CmdTopics == {"create", "close", "delete", "closeAll"}

AckIdx(e) == {i \in DOMAIN e : e[i].name = CMD /\ e[i].topic \in CmdTopics}

ListIdx(e) == {i \in DOMAIN e : e[i].name = CMD /\ e[i].topic = "list"}

\* C12: the step that completes create, close, delete or closeAll puts out one
\* acknowledgement, with the command's name as topic, also when the name has no
\* entry; no other step puts one out (the close inside create does not); list
\* puts out one list event and changes nothing
C12_OneAckPerCommand ==
    [][LET cmd == IF op'.kind = "createResume" THEN "create" ELSE op'.kind IN
       /\ (cmd \in CmdTopics /\ op'.done)
             => /\ Cardinality(AckIdx(emitted')) = 1
                /\ \A i \in AckIdx(emitted') : emitted'[i].topic = cmd
       /\ (cmd \notin CmdTopics \/ ~op'.done) => AckIdx(emitted') = {}
       /\ op'.kind = "list"
             => /\ emitted' = <<[topic |-> "list", name |-> CMD, slot |-> 0, stale |-> FALSE]>>
                /\ UNCHANGED <<connections, keyOrder, rec, nextSlot, queue, nodeClosed>>
       /\ op'.kind # "list" => ListIdx(emitted') = {}]_vars

\* close of a name that has no entry has been acknowledged
C12_Witness ==
    /\ op.kind = "close" /\ connections[op.name] = 0
    /\ Cardinality(AckIdx(emitted)) = 1

\* the transport of record r has reported open and has not reported close
Opened(r) == rec[r].ws = "OPEN" \/ (rec[r].ws = "CLOSING" /\ ~rec[r].aborted)

\* C13: for each name the open, message and close events form
\* (open message* close)*: an open event comes when no transport of that name
\* is between its open and its close, a message or close event comes from a
\* transport that is between its open and its close
C13_OpenMessageClose ==
    [][\A i \in DOMAIN emitted' :
          LET e == emitted'[i] IN
          /\ (e.slot # 0 /\ e.topic = "open")
                => \A r \in Slots : rec[r].name = e.name => ~Opened(r)
          /\ (e.slot # 0 /\ e.topic \in {"message", "close"})
                => /\ Opened(e.slot)
                   /\ \A r \in Slots \ {e.slot} : rec[r].name = e.name => ~Opened(r)]_vars

\* C14: the ping timer of a record is active exactly when its transport is
\* OPEN and its ping interval is greater than 0
C14_PingTimerIffOpen ==
    \A r \in Slots :
        rec[r].name # ""
            => (rec[r].pingTimer <=> (rec[r].ws = "OPEN" /\ rec[r].pingInterval > 0))

\* the schedulings of record r in what a step put out
Sched(e, r) == {i \in DOMAIN e : e[i].topic = "schedule" /\ e[i].slot = r}

TimerWillFire(r) ==
    /\ rec[r].reconnectTimer
    /\ rec[r].urlOk \/ rec[r].reconnectAttempts < MaxAttempts

C17_CloseDrivesReconnect ==
    [][\A r \in Slots :
          rec[r].name # "" =>
            LET errs == Topics(r, {"error", "errorStatus"})'
                closes == Topics(r, {"close"})'
                threw == Topics(r, {"connectError"})'
                dials == Topics(r, {"dial", "connectError"})'
                sched == Sched(emitted', r)
            IN  /\ (errs # {} /\ closes = {})
                      => /\ sched = {}
                         /\ rec'[r].reconnectAttempts = rec[r].reconnectAttempts
                         /\ rec'[r].reconnectTimer = rec[r].reconnectTimer
                /\ sched # {}
                      => /\ closes # {} \/ threw # {}
                         /\ ~rec[r].reconnectTimer \/ op'.kind = "reconnectTimer"
                /\ (closes # {} /\ ~rec[r].manualClose)
                      => /\ Cardinality(sched) = 1
                         /\ rec'[r].reconnectAttempts = rec[r].reconnectAttempts + 1
                         /\ rec'[r].reconnectTimer
                /\ dials # {}
                      => /\ Cardinality(dials) = 1
                         /\ op'.kind = "reconnectTimer" /\ rec[r].reconnectTimer]_vars

\* a handshake has failed: error and close in one turn, and the count is 1
C17_Witness ==
    /\ op.kind = "wsFail"
    /\ \E r \in Slots :
          /\ Topics(r, {"error"}) # {} /\ Topics(r, {"close"}) # {}
          /\ rec[r].reconnectAttempts = 1 /\ rec[r].reconnectTimer

\* C18: close, delete or closeAll given again right after itself changes no
\* record (manualClose, timers, transport state: no further ws.close()), no
\* registry key and no suspended handler
C18_Idempotent ==
    [][(op'.again /\ op'.kind \in {"close", "delete", "closeAll"})
          => UNCHANGED <<connections, keyOrder, rec, nextSlot, queue>>]_vars

\* close given twice on an entry whose transport is still closing
C18_Witness ==
    /\ op.again /\ op.kind \in {"close", "closeAll"}
    /\ \E n \in ListKeys :
          rec[connections[n]].ws = "CLOSING" /\ rec[connections[n]].manualClose

\* the dials in what the last step put out
Dials == {i \in DOMAIN emitted : emitted[i].topic = "dial"}

\* C19: every dial, the first one of a record and every later one, is made
\* with the configured handshake timeout
C19_DialHasHandshakeTimeout ==
    \A i \in Dials : emitted[i].opts.handshakeTimeout = timeoutMs

\* C20: a dial made by the reconnect timer passes the options the first dial
\* of the record passed
C20_SameDialOptions ==
    op.kind = "reconnectTimer" => \A i \in Dials : emitted[i].opts = wsOptions

====
